---------------------------- MODULE Spec2Model ----------------------------
(***************************************************************************)
(* Model of the SPARQL proxy route of the Medieval Charters Knowledge      *)
(* Graph backend (backend/routes/sparql.js): request validation, the       *)
(* query cache (node-cache, stdTTL 3600 s, checkperiod 600 s), endpoint    *)
(* selection, the outbound call and the classification of its failures.    *)
(* The search route, the properties route and the route mounting of the    *)
(* server entry points are modelled next to it.                            *)
(*                                                                         *)
(* A JavaScript string is modelled as what it is: a sequence of UTF-16     *)
(* code units (numbers 0..65535).  The literals below are the code units   *)
(* of the string literals of the source.                                   *)
(***************************************************************************)
EXTENDS Integers, Sequences, FiniteSets, TLC

(***************************************************************************)
(* Bounds of the model.                                                    *)
(***************************************************************************)
\* number of requests handled in one behaviour of the "proxy" family
MaxReq == 2
\* number of requests handled in one behaviour of the "failing" family
MaxFailingReq == 3
\* number of clock advances in one behaviour
MaxTicks == 2
\* number of fragments a query text of the selector model is built from
MaxParts == 2
\* number of requests handled in one behaviour of the "server" family
MaxServerReq == 2
\* number of searches started in one behaviour of the frontend families
MaxSearches == 2

(***************************************************************************)
(* Program constants.                                                      *)
(***************************************************************************)
\* queryCache: stdTTL, seconds
stdTTL == 3600
\* queryCache: checkperiod, seconds
checkperiod == 600
\* query.substring(0, 500) of the syntax-error response
EXCERPT_LEN == 500

WIKIBASE_SPARQL_ENDPOINT == "https://medievalcharterskg.wikibase.cloud/query/sparql"
WIKIDATA_SPARQL_ENDPOINT == "https://query.wikidata.org/sparql"

\* 'wdt:P625'
LIT_P625 == <<119,100,116,58,80,54,50,53>>
\* '<http://www.wikidata.org/entity/'
LIT_WD_ENTITY == <<60,104,116,116,112,58,47,47,119,119,119,46,119,105,107,105,100,97,116,97,46,111,114,103,47,101,110,116,105,116,121,47>>
\* 'VALUES ?wdItem'
LIT_VALUES_WDITEM == <<86,65,76,85,69,83,32,63,119,100,73,116,101,109>>
\* 'VALUES ?residenceWdItem'
LIT_VALUES_RESIDENCE == <<86,65,76,85,69,83,32,63,114,101,115,105,100,101,110,99,101,87,100,73,116,101,109>>
\* 'syntax'
LIT_SYNTAX == <<115,121,110,116,97,120>>
\* 'Unknown syntax error'
LIT_UNKNOWN_SYNTAX == <<85,110,107,110,111,119,110,32,115,121,110,116,97,120,32,101,114,114,111,114>>
\* '...'
LIT_DOTS == <<46,46,46>>

(***************************************************************************)
(* JavaScript values: the query field of a request body, the bodies the    *)
(* upstream sends, what the cache returns.  A string carries its code      *)
(* units; a number carries its value in id; an object is a SPARQL-results  *)
(* object (id tells two apart) or an error body with a message field.      *)
(* The message of an error body is a string unless messageType says        *)
(* otherwise.                                                              *)
(***************************************************************************)
JsValue(type, id, str, hasMessage, message) ==
  [type |-> type, id |-> id, str |-> str,
   hasMessage |-> hasMessage, message |-> message, messageType |-> "string"]

JsUndefined == JsValue("undefined", 0, <<>>, FALSE, <<>>)
JsNull == JsValue("null", 0, <<>>, FALSE, <<>>)
JsString(s) == JsValue("string", 0, s, FALSE, <<>>)
JsResults(id) == JsValue("object", id, <<>>, FALSE, <<>>)
JsErrorBody(message) == JsValue("object", 0, <<>>, TRUE, message)
JsNumber(n) == JsValue("number", n, <<>>, FALSE, <<>>)
\* an error body { message: n } whose message is the number n
JsNumericErrorBody(n) ==
  [JsValue("object", n, <<>>, TRUE, <<>>) EXCEPT !.messageType = "number"]

\* ToBoolean: undefined, null, '' and 0 are falsy; objects, other strings and
\* other numbers truthy
Truthy(v) ==
  \/ v.type = "object"
  \/ v.type = "string" /\ v.str # <<>>
  \/ v.type = "number" /\ v.id # 0

(***************************************************************************)
(* String.prototype.includes and String.prototype.substring(0, n)          *)
(***************************************************************************)
Includes(s, sub) ==
  \E i \in 0..(Len(s) - Len(sub)) :
     \A j \in 1..Len(sub) : s[i + j] = sub[j]

Substring0(s, n) == SubSeq(s, 1, IF Len(s) < n THEN Len(s) ELSE n)

(***************************************************************************)
(* Buffer.from(query): the UTF-8 encoding of a string.  A surrogate pair   *)
(* encodes its code point in four bytes; an unpaired surrogate is encoded  *)
(* as U+FFFD (EF BF BD), as Node does.                                     *)
(***************************************************************************)
IsHigh(c) == c >= 55296 /\ c <= 56319
IsLow(c) == c >= 56320 /\ c <= 57343

Utf8Of(cp) ==
  IF cp < 128 THEN <<cp>>
  ELSE IF cp < 2048 THEN <<192 + (cp \div 64), 128 + (cp % 64)>>
  ELSE IF cp < 65536
    THEN <<224 + (cp \div 4096), 128 + ((cp \div 64) % 64), 128 + (cp % 64)>>
  ELSE <<240 + (cp \div 262144), 128 + ((cp \div 4096) % 64),
         128 + ((cp \div 64) % 64), 128 + (cp % 64)>>

\* the concatenation of the sequences ss[lo], ..., ss[hi]
RECURSIVE Flatten(_, _, _)
Flatten(ss, lo, hi) ==
  IF lo > hi THEN <<>>
  ELSE IF lo = hi THEN ss[lo]
  ELSE LET mid == (lo + hi) \div 2
       IN  Flatten(ss, lo, mid) \o Flatten(ss, mid + 1, hi)

\* the bytes the code unit at index i contributes: a high surrogate followed
\* by a low one contributes the four bytes of their code point and the low
\* one nothing more
Utf8At(s, i) ==
  IF IsHigh(s[i]) /\ i < Len(s) /\ IsLow(s[IF i < Len(s) THEN i + 1 ELSE i])
    THEN Utf8Of(65536 + (s[i] - 55296) * 1024 + (s[i + 1] - 56320))
  ELSE IF IsLow(s[i]) /\ i > 1 /\ IsHigh(s[IF i > 1 THEN i - 1 ELSE i])
    THEN <<>>
  ELSE IF IsHigh(s[i]) \/ IsLow(s[i]) THEN <<239, 191, 189>>
  ELSE Utf8Of(s[i])

BufferFrom(s) == Flatten([i \in 1..Len(s) |-> Utf8At(s, i)], 1, Len(s))

(***************************************************************************)
(* buf.toString('base64'): the characters of the base64 text, as code      *)
(* units ('A'..'Z', 'a'..'z', '0'..'9', '+', '/', padded with '=').        *)
(***************************************************************************)
B64Char(n) ==
  IF n < 26 THEN 65 + n
  ELSE IF n < 52 THEN 97 + (n - 26)
  ELSE IF n < 62 THEN 48 + (n - 52)
  ELSE IF n = 62 THEN 43
  ELSE 47

\* the four characters of the g-th group of three bytes (the last group
\* may hold one or two bytes and is padded)
Base64Group(b, g) ==
  LET i == 3 * g - 2
  IN  IF i = Len(b)
        THEN <<B64Char(b[i] \div 4), B64Char((b[i] % 4) * 16), 61, 61>>
      ELSE IF i + 1 = Len(b)
        THEN <<B64Char(b[i] \div 4),
               B64Char((b[i] % 4) * 16 + (b[i + 1] \div 16)),
               B64Char((b[i + 1] % 16) * 4), 61>>
      ELSE <<B64Char(b[i] \div 4),
             B64Char((b[i] % 4) * 16 + (b[i + 1] \div 16)),
             B64Char((b[i + 1] % 16) * 4 + (b[i + 2] \div 64)),
             B64Char(b[i + 2] % 64)>>

ToBase64(b) ==
  LET groups == (Len(b) + 2) \div 3
  IN  Flatten([g \in 1..groups |-> Base64Group(b, g)], 1, groups)

\* const cacheKey = Buffer.from(query).toString('base64');
cacheKey(query) == ToBase64(BufferFrom(query))

(***************************************************************************)
(* Endpoint selection.                                                     *)
(***************************************************************************)
\* fault variant: the third alternative is forgotten
isWikidataQuery_NoResidence(query) ==
  /\ Includes(query, LIT_P625)
  /\ \/ Includes(query, LIT_WD_ENTITY)
     \/ Includes(query, LIT_VALUES_WDITEM)

isWikidataQuery(query) ==
  /\ Includes(query, LIT_P625)
  /\ \/ Includes(query, LIT_WD_ENTITY)
     \/ Includes(query, LIT_VALUES_WDITEM)
     \/ Includes(query, LIT_VALUES_RESIDENCE)

endpoint(query) ==
  IF isWikidataQuery(query) THEN WIKIDATA_SPARQL_ENDPOINT
  ELSE WIKIBASE_SPARQL_ENDPOINT

(***************************************************************************)
(* queryCache = new NodeCache({ stdTTL: 3600, checkperiod: 600 }).         *)
(* The cache maps a key to the stored value v and its expiry time          *)
(* t = Date.now() + stdTTL.  node-cache treats an entry as expired when    *)
(* data.t < Date.now() (its _check), deletes an expired entry it meets in  *)
(* get, and sweeps all entries every checkperiod (its _checkData).  The    *)
(* fields at (time of the set) and q (query text of the request that      *)
(* stored the entry) are history: the program does not read them.          *)
(***************************************************************************)
\* fault variant: the expiry time, kept in seconds, is read as milliseconds
Expired_Millis(t, now) == t * 1000 < now

Expired(t, now) == t < now

CacheLive(c, k, now) == k \in DOMAIN c /\ ~Expired(c[k].t, now)

CacheGet(c, k, now) == IF CacheLive(c, k, now) THEN c[k].v ELSE JsUndefined

\* fault variant: sliding expiry; a get that finds a live entry restarts
\* its TTL
CacheAfterGet_Touch(c, k, now) ==
  IF k \in DOMAIN c
    THEN IF Expired(c[k].t, now)
           THEN [x \in DOMAIN c \ {k} |-> c[x]]
           ELSE [c EXCEPT ![k].t = now + stdTTL]
    ELSE c

\* the cache after get(k): an expired entry found under k is deleted
CacheAfterGet(c, k, now) ==
  IF k \in DOMAIN c /\ Expired(c[k].t, now)
    THEN [x \in DOMAIN c \ {k} |-> c[x]]
    ELSE c

\* fault variant: a key that has an entry keeps it
CacheSet_KeepFirst(c, k, v, now, q) ==
  [x \in DOMAIN c \cup {k} |->
     IF x \in DOMAIN c THEN c[x]
     ELSE [v |-> v, t |-> now + stdTTL, at |-> now, q |-> q]]

CacheSet(c, k, v, now, q) ==
  [x \in DOMAIN c \cup {k} |->
     IF x = k THEN [v |-> v, t |-> now + stdTTL, at |-> now, q |-> q]
     ELSE c[x]]

CacheSweep(c, now) ==
  [x \in {y \in DOMAIN c : ~Expired(c[y].t, now)} |-> c[x]]

(***************************************************************************)
(* Responses written by the handler: res.status(status).json(body).  A     *)
(* success body is the result (json); an error body has message (a fixed  *)
(* prefix followed by an interpolated detail), error and, for syntax      *)
(* errors, query_excerpt.                                                  *)
(***************************************************************************)
Response(status, json, message, detail, error, errorText, excerpt) ==
  [status |-> status, json |-> json, message |-> message, detail |-> detail,
   error |-> error, errorText |-> errorText, query_excerpt |-> excerpt]

NoResponse == Response(0, JsUndefined, "", <<>>, JsUndefined, "", JsUndefined)

\* return res.status(400).json({ message: 'SPARQL query is required' });
RequiredResponse ==
  Response(400, JsUndefined, "SPARQL query is required", <<>>,
           JsUndefined, "", JsUndefined)

\* return res.json(data);
ResultResponse(data) ==
  Response(200, data, "", <<>>, JsUndefined, "", JsUndefined)

\* fault variant: the query text is trimmed of leading and trailing spaces
\* before it is sent
params_Trimmed(query) ==
  LET s == query.str
      first == IF \E i \in 1..Len(s) : s[i] # 32
                 THEN CHOOSE i \in 1..Len(s) :
                        s[i] # 32 /\ \A j \in 1..(i - 1) : s[j] = 32
                 ELSE 1
      last == IF \E i \in 1..Len(s) : s[i] # 32
                THEN CHOOSE i \in 1..Len(s) :
                       s[i] # 32 /\ \A j \in (i + 1)..Len(s) : s[j] = 32
                ELSE 0
  IN  [query |-> JsString(SubSeq(s, first, last)), format |-> "json"]

\* params: { query, format: 'json' }
params(query) == [query |-> query, format |-> "json"]

\* fault variant: only the absent query is rejected
Invalid_AbsentOnly(query) == query.type = "undefined"

\* if (!query)
Invalid(query) == ~Truthy(query)

\* fault variant: the cached result is never taken
IsHit_Never(cachedResult) == FALSE

\* if (cachedResult)
IsHit(cachedResult) == Truthy(cachedResult)

(***************************************************************************)
(* The outcome of the outbound call.  axios resolves on a 2xx response;    *)
(* it rejects with error.response set on any other status, with only       *)
(* error.request set when no response was received (timeout, DNS or        *)
(* connection failure), and with neither when the request could not be set *)
(* up.                                                                     *)
(***************************************************************************)
UpstreamOk(data) ==
  [kind |-> "response", status |-> 200, statusText |-> <<79,75>>, data |-> data]
UpstreamRejected(status, statusText, data) ==
  [kind |-> "response", status |-> status, statusText |-> statusText, data |-> data]
UpstreamSilent ==
  [kind |-> "request", status |-> 0, statusText |-> <<>>, data |-> JsUndefined]
UpstreamSetup ==
  [kind |-> "setup", status |-> 0, statusText |-> <<>>, data |-> JsUndefined]
UpstreamNone ==
  [kind |-> "none", status |-> 0, statusText |-> <<>>, data |-> JsUndefined]

\* Buffer.from(query) throws a TypeError for a number or a plain object
BufferFromThrows(query) == query.type # "string"

\* error.response?.data?.message?.includes('syntax') throws a TypeError
\* (includes is not a function) when the message is neither null, undefined
\* nor a string
OnCatchThrows(error) ==
  /\ error.kind = "response"
  /\ error.data.type = "object"
  /\ error.data.hasMessage
  /\ error.data.messageType # "string"

\* fault variant: every upstream rejection is taken for a syntax error
IsSyntaxError_Always(error) == TRUE

\* error.response?.data?.message?.includes('syntax')
IsSyntaxError(error) ==
  /\ error.data.type = "object"
  /\ error.data.hasMessage
  /\ error.data.messageType = "string"
  /\ Includes(error.data.message, LIT_SYNTAX)

\* error.response.data?.message || fallback
MessageOr(data, fallback) ==
  IF data.type = "object" /\ data.hasMessage /\ data.message # <<>>
    THEN data.message ELSE fallback

\* fault variant: the excerpt is cut like the logged one, query.substring(0, 200)
QueryExcerpt_Short(query) == Substring0(query, 200) \o LIT_DOTS

\* query.substring(0, 500) + '...'
QueryExcerpt(query) == Substring0(query, EXCERPT_LEN) \o LIT_DOTS

SyntaxErrorResponse(error, query) ==
  Response(error.status, JsUndefined, "SPARQL Syntax Error: ",
           MessageOr(error.data, LIT_UNKNOWN_SYNTAX), error.data, "",
           JsString(QueryExcerpt(query)))

EndpointErrorResponse(error) ==
  Response(error.status, JsUndefined, "Error from SPARQL endpoint: ",
           MessageOr(error.data, error.statusText), error.data, "",
           JsUndefined)

\* fault variant: no response is answered like a setup error
NoResponseResponse_AsSetup ==
  Response(500, JsUndefined, "Error setting up request to SPARQL endpoint",
           <<>>, JsUndefined, "error.message", JsUndefined)

NoResponseResponse ==
  Response(503, JsUndefined, "No response from SPARQL endpoint", <<>>,
           JsUndefined, "Service unavailable", JsUndefined)

\* fault variant: a setup error is answered like an unreachable upstream
SetupErrorResponse_AsUnavailable ==
  Response(503, JsUndefined, "No response from SPARQL endpoint", <<>>,
           JsUndefined, "Service unavailable", JsUndefined)

SetupErrorResponse ==
  Response(500, JsUndefined, "Error setting up request to SPARQL endpoint",
           <<>>, JsUndefined, "error.message", JsUndefined)

\* the catch block
OnCatch(error, query) ==
  IF error.kind = "response"
    THEN IF IsSyntaxError(error)
           THEN SyntaxErrorResponse(error, query)
           ELSE EndpointErrorResponse(error)
  ELSE IF error.kind = "request" THEN NoResponseResponse
  ELSE SetupErrorResponse

\* the try block after the await: the cache is set, then the logging line
\* reads response.data.results, which throws a TypeError when the body is
\* null; the catch block answers it as an error that has neither response
\* nor request
OnResolve(data) ==
  IF data.type \in {"null", "undefined"} THEN SetupErrorResponse
  ELSE ResultResponse(data)

\* fault variant: the body is stored whatever the outcome
CacheAfterCall_Always(c, k, outcome, now, q) ==
  CacheSet(c, k, outcome.data, now, q)

\* the cache after the outbound call settled: set on a 2xx answer only
CacheAfterCall(c, k, outcome, now, q) ==
  IF outcome.kind = "response" /\ outcome.status = 200
    THEN CacheSet(c, k, outcome.data, now, q)
    ELSE c

(***************************************************************************)
(* The search route, router.get('/') mounted at /api/search: the query     *)
(* parameter is forwarded to the wbsearchentities action of the Wikibase   *)
(* API.                                                                    *)
(***************************************************************************)
WIKIBASE_API_URL == "process.env.WIKIBASE_API_URL"

\* if (!query)
SearchInvalid(query) == ~Truthy(query)

\* return res.status(400).json({ message: 'Query parameter is required' });
SearchRequiredResponse ==
  Response(400, JsUndefined, "Query parameter is required", <<>>,
           JsUndefined, "", JsUndefined)

\* return res.json(response.data);
SearchOnResolve(data) == ResultResponse(data)

\* fault variant: every failure is answered 500
SearchOnCatch_Fixed(error) ==
  Response(500, JsUndefined, "Error from Wikibase API", <<>>,
           JsUndefined, "", JsUndefined)

\* the catch block
SearchOnCatch(error) ==
  IF error.kind = "response"
    THEN Response(error.status, JsUndefined, "Error from Wikibase API", <<>>,
                  error.data, "", JsUndefined)
  ELSE IF error.kind = "request"
    THEN Response(503, JsUndefined, "No response from Wikibase API", <<>>,
                  JsUndefined, "Service unavailable", JsUndefined)
  ELSE Response(500, JsUndefined, "Error setting up request to Wikibase API",
                <<>>, JsUndefined, "error.message", JsUndefined)

(***************************************************************************)
(* The properties route, router.get('/:entityId') mounted at               *)
(* /api/searchProperties: one SPARQL query, built from the entity id, is   *)
(* sent to the Wikibase SPARQL endpoint.                                   *)
(***************************************************************************)
WIKIBASE_SPARQL_URL == "process.env.WIKIBASE_SPARQL_URL"

\* the template literal, cut down to the four statements that interpolate
\* entityId: 'wd:${entityId} ?p ?value .', 'wd:${entityId} wdt:P3
\* ?instanceOf', 'wd:${entityId} wdt:P55 ?residence .', 'wd:${entityId}
\* wdt:P2 ?placeWD .'
sparqlQuery(entityId) ==
  <<119,100,58>> \o entityId \o <<32,63,112,32,63,118,97,108,117,101,32,46,32>>
  \o <<119,100,58>> \o entityId \o <<32,119,100,116,58,80,51,32,63,105,110,115,116,97,110,99,101,79,102,32>>
  \o <<119,100,58>> \o entityId \o <<32,119,100,116,58,80,53,53,32,63,114,101,115,105,100,101,110,99,101,32,46,32>>
  \o <<119,100,58>> \o entityId \o <<32,119,100,116,58,80,50,32,63,112,108,97,99,101,87,68,32,46>>

\* res.json(response.data);
PropertiesOnResolve(data) == ResultResponse(data)

\* fault variant: the catch block of the search route
PropertiesOnCatch_Passthrough(error) == SearchOnCatch(error)

\* res.status(500).json({ error: 'Error fetching properties' });
PropertiesOnCatch(error) ==
  Response(500, JsUndefined, "", <<>>, JsUndefined,
           "Error fetching properties", JsUndefined)

\* Express's final handler: no route matched
NotFoundResponse ==
  Response(404, JsUndefined, "Cannot <method> <path>", <<>>,
           JsUndefined, "", JsUndefined)

(***************************************************************************)
(* Inputs.  The environment draws the requests and the upstream outcomes   *)
(* from one of these families:                                             *)
(*   "proxy"   MaxReq requests over a few short query texts, every 2xx     *)
(*             body that reaches the client, one failure class;            *)
(*   "failing" MaxFailingReq requests, each without a query or for one     *)
(*             query text, every failure class and the 2xx body null;      *)
(*   "single"  one request, drawn from every concatenation of at most      *)
(*             MaxParts fragments and one text longer than the excerpt,    *)
(*             with every shape of upstream outcome;                       *)
(*   "routing" MaxReq requests over one query text of each endpoint, with  *)
(*             2xx bodies that are and are not served again;               *)
(*   "server"  MaxServerReq requests of any method and path to any of the  *)
(*             server entry points.                                        *)
(***************************************************************************)
\* 'a', an unpaired high surrogate '\uD800', the replacement character
\* '�'
ProxyTexts == {<<97>>, <<55296>>, <<65533>>}

Fragments ==
  { LIT_P625,
    LIT_WD_ENTITY,
    LIT_VALUES_WDITEM,
    LIT_VALUES_RESIDENCE,
    \* 'wdt:p625'
    <<119,100,116,58,112,54,50,53>>,
    \* 'wdt:P62' and '5 ', which joined hold 'wdt:P625'
    <<119,100,116,58,80,54,50>>,
    <<53,32>>,
    \* 'values ?wdItem'
    <<118,97,108,117,101,115,32,63,119,100,73,116,101,109>> }

RECURSIVE Concats(_)
Concats(n) ==
  IF n = 0 THEN {<<>>}
  ELSE Concats(n - 1) \cup {t \o f : t \in Concats(n - 1), f \in Fragments}

\* 'wdt:P625', 'VALUES ?wdItem', then 'a' repeated past the excerpt length
LongText ==
  LIT_P625 \o LIT_VALUES_WDITEM \o [i \in 1..(EXCERPT_LEN + 1) |-> 97]

SelectorTexts == Concats(MaxParts) \cup {LongText}

\* 'a' and 'wdt:P625VALUES ?wdItem'
RoutingTexts == {<<97>>, LIT_P625 \o LIT_VALUES_WDITEM}

Texts(e) ==
  IF e = "single" THEN SelectorTexts
  ELSE IF e = "routing" THEN RoutingTexts
  ELSE IF e = "server" THEN {<<97>>}
  ELSE IF e = "failing" THEN {<<97>>}
  ELSE ProxyTexts

Queries(e) ==
  (IF e = "single" THEN {JsUndefined, JsString(<<>>), JsNumber(0), JsNumber(5)}
   ELSE IF e = "failing" THEN {JsUndefined}
   ELSE IF e = "server" THEN {JsUndefined, JsString(<<>>)}
   ELSE {})
  \cup {JsString(t) : t \in Texts(e)}

\* 2xx bodies: two result objects, the empty string and null
Bodies(e) ==
  IF e = "proxy" THEN {JsResults(1), JsResults(2), JsString(<<>>)}
  ELSE IF e \in {"failing", "server"} THEN {JsResults(1), JsNull}
  ELSE IF e = "routing" THEN {JsResults(1), JsString(<<>>)}
  ELSE {JsResults(1), JsResults(2), JsString(<<>>), JsNull}

\* 'parse error: syntax'
MSG_SYNTAX == <<112,97,114,115,101,32,101,114,114,111,114,58,32,115,121,110,116,97,120>>
\* 'Syntax error'
MSG_SYNTAX_CAPITAL == <<83,121,110,116,97,120,32,101,114,114,111,114>>
\* 'timeout'
MSG_OTHER == <<116,105,109,101,111,117,116>>
\* 'Bad Request', 'Bad Gateway'
TEXT_BAD_REQUEST == <<66,97,100,32,82,101,113,117,101,115,116>>
TEXT_BAD_GATEWAY == <<66,97,100,32,71,97,116,101,119,97,121>>

\* 'Not Found'
TEXT_NOT_FOUND == <<78,111,116,32,70,111,117,110,100>>

Failures(e) ==
  IF e \in {"proxy", "routing"} THEN {UpstreamSilent}
  ELSE IF e = "server"
    THEN {UpstreamRejected(404, TEXT_NOT_FOUND, JsErrorBody(MSG_OTHER)),
          UpstreamRejected(502, TEXT_BAD_GATEWAY, JsNull),
          UpstreamSilent, UpstreamSetup}
  ELSE IF e = "failing"
    THEN {UpstreamRejected(400, TEXT_BAD_REQUEST, JsErrorBody(MSG_SYNTAX)),
          UpstreamSilent, UpstreamSetup}
  ELSE {UpstreamRejected(400, TEXT_BAD_REQUEST, JsErrorBody(MSG_SYNTAX)),
        UpstreamRejected(400, TEXT_BAD_REQUEST, JsErrorBody(MSG_SYNTAX_CAPITAL)),
        UpstreamRejected(400, TEXT_BAD_REQUEST, JsString(MSG_SYNTAX)),
        UpstreamRejected(502, TEXT_BAD_GATEWAY, JsErrorBody(MSG_SYNTAX)),
        UpstreamRejected(502, TEXT_BAD_GATEWAY, JsErrorBody(MSG_OTHER)),
        UpstreamRejected(502, TEXT_BAD_GATEWAY, JsNull),
        UpstreamRejected(502, TEXT_BAD_GATEWAY, JsNumericErrorBody(42)),
        UpstreamSilent, UpstreamSetup}

Clients(e) ==
  IF e = "single" THEN 1
  ELSE IF e = "failing" THEN MaxFailingReq
  ELSE IF e = "server" THEN MaxServerReq
  ELSE MaxReq

Max(a, b) == IF a > b THEN a ELSE b

Requests == 1..Max(MaxReq, Max(MaxFailingReq, MaxServerReq))

\* req.params.entityId: 'Q1'
EntityIds == {JsString(<<81,49>>)}

\* the method and path of a request: the three routes, and a POST to
\* /api/search, which no router handles
Targets ==
  { [method |-> "POST", path |-> "/api/sparql"],
    [method |-> "GET", path |-> "/api/search"],
    [method |-> "GET", path |-> "/api/searchProperties/:entityId"],
    [method |-> "POST", path |-> "/api/search"] }

\* what the request carries: req.params.entityId, req.query.query or
\* req.body.query
Inputs(e, target) ==
  IF target.path = "/api/searchProperties/:entityId" THEN EntityIds
  ELSE Queries(e)

\* clock advances, in seconds
Steps == {1, stdTTL}

(***************************************************************************)
(* The server entry point.  The tree holds four versions of it; each       *)
(* requires its routers and mounts them with app.use(prefix, router).  A   *)
(* request whose method and path match no mounted route falls through to   *)
(* Express's final handler, which answers 404.                             *)
(***************************************************************************)
SERVER_JS == "src/backend/server.js"
PART_000_A == "src/unnamed/part_000:1-65"
PART_000_B == "src/unnamed/part_000:66-128"
PART_001 == "src/unnamed/part_001"

Servers == {SERVER_JS, PART_000_A, PART_000_B, PART_001}

\* the routers the entry point mounts
Mounted(s) ==
  IF s \in {SERVER_JS, PART_000_A} THEN {"search", "searchProperties"}
  ELSE {"search", "sparql"}

\* the routes of the routers: router.post('/') under /api/sparql,
\* router.get('/') under /api/search, router.get('/:entityId') under
\* /api/searchProperties
Routes ==
  { [method |-> "POST", path |-> "/api/sparql", handler |-> "sparql"],
    [method |-> "GET", path |-> "/api/search", handler |-> "search"],
    [method |-> "GET", path |-> "/api/searchProperties/:entityId",
     handler |-> "searchProperties"] }

NoRoute == [method |-> "", path |-> "", handler |-> ""]
SparqlRoute == [method |-> "POST", path |-> "/api/sparql", handler |-> "sparql"]

\* the handler a request reaches: the mounted route of its method and path,
\* "notFound" when there is none
Handler(s, method, path) ==
  IF \E x \in Routes :
       x.method = method /\ x.path = path /\ x.handler \in Mounted(s)
    THEN (CHOOSE x \in Routes : x.method = method /\ x.path = path).handler
    ELSE "notFound"

\* the sparql route is studied on an entry point that mounts it
ServersOf(e) == IF e = "server" THEN Servers ELSE {PART_001}

(***************************************************************************)
(* The search components of the frontend, GeoSearch.vue and Search.vue.    *)
(* Each holds a search term, the results of the last search and a page     *)
(* number; executeSearch is the submit handler of the search form.         *)
(***************************************************************************)
itemsPerPage == 10

\* the invocations of executeSearch in one behaviour
Searches == 1..MaxSearches

\* error messages of the components
MSG_ENTER_TERM == "Please enter a search term"
MSG_SEARCH_FAILED == "Error performing search"
NoError == "null"

\* String.prototype.trim: strips white space and line terminators from both
\* ends
IsWhiteSpace(c) == c \in {9, 10, 11, 12, 13, 32, 160}

RECURSIVE TrimStart(_)
TrimStart(s) ==
  IF s # <<>> /\ IsWhiteSpace(Head(s)) THEN TrimStart(Tail(s)) ELSE s

RECURSIVE TrimEnd(_)
TrimEnd(s) ==
  IF s # <<>> /\ IsWhiteSpace(s[Len(s)]) THEN TrimEnd(SubSeq(s, 1, Len(s) - 1))
  ELSE s

trim(s) == TrimEnd(TrimStart(s))

\* fault variant: the guard tests the raw term
Blank_Raw(text) == text = <<>>

\* !searchQuery.value.trim()
Blank(text) == trim(text) = <<>>

\* replaceAll over code units: every occurrence of the unit c becomes the
\* sequence by
RECURSIVE ReplaceUnit(_, _, _)
ReplaceUnit(s, c, by) ==
  IF s = <<>> THEN <<>>
  ELSE (IF Head(s) = c THEN by ELSE <<Head(s)>>) \o ReplaceUnit(Tail(s), c, by)

\* lastSearchQuery.value.replace(/'/g, "\\'")
sanitizedTerm(term) == ReplaceUnit(term, 39, <<92, 39>>)

\* String.prototype.toLowerCase over Basic Latin and Latin-1
toLowerCase(s) ==
  [i \in 1..Len(s) |->
     IF s[i] \in 65..90 \/ (s[i] \in 192..222 /\ s[i] # 215) THEN s[i] + 32
     ELSE s[i]]

\* .toLowerCase() and the five replacements of an acute vowel by its base
\* vowel
normalizedTerm(term) ==
  ReplaceUnit(ReplaceUnit(ReplaceUnit(ReplaceUnit(ReplaceUnit(
    toLowerCase(term), 225, <<97>>), 233, <<101>>), 237, <<105>>),
    243, <<111>>), 250, <<117>>)

\* the template literal of the initial query, cut down to the two prefix
\* declarations of Wikidata and to one statement for each interpolated term:
\* 'PREFIX wd: <http://www.wikidata.org/entity/>', 'PREFIX wdt:
\* <http://www.wikidata.org/prop/direct/>', "IF(STRSTARTS(?lowerLabel,
\* LCASE('${sanitizedTerm}')), 100, 0) + ", "IF(STRSTARTS(?normalizedLabel,
\* '${normalizedTerm}'), 90, 0)"
initialQuery(term) ==
  <<80,82,69,70,73,88,32,119,100,58,32,60,104,116,116,112,58,47,47,119,119,119,46,119,105,107,105,100,97,116,97,46,111,114,103,47,101,110,116,105,116,121,47,62,10>>
  \o <<80,82,69,70,73,88,32,119,100,116,58,32,60,104,116,116,112,58,47,47,119,119,119,46,119,105,107,105,100,97,116,97,46,111,114,103,47,112,114,111,112,47,100,105,114,101,99,116,47,62,10>>
  \o <<73,70,40,83,84,82,83,84,65,82,84,83,40,63,108,111,119,101,114,76,97,98,101,108,44,32,76,67,65,83,69,40,39>>
  \o sanitizedTerm(term) \o <<39,41,41,44,32,49,48,48,44,32,48,41,32,43,32,10>>
  \o <<73,70,40,83,84,82,83,84,65,82,84,83,40,63,110,111,114,109,97,108,105,122,101,100,76,97,98,101,108,44,32,39>>
  \o normalizedTerm(term) \o <<39,41,44,32,57,48,44,32,48,41>>

\* binding.wdItem.value of the results: 'http://www.wikidata.org/entity/Q1'
WdItems == {<<104,116,116,112,58,47,47,119,119,119,46,119,105,107,105,100,97,116,97,46,111,114,103,47,101,110,116,105,116,121,47,81,49>>}

\* Array.from(items).map(item => `<${item}>`).join(' '), for the item sets
\* of at most one element that the results carry
Values(items) ==
  IF items = {} THEN <<>>
  ELSE LET item == CHOOSE x \in items : TRUE IN <<60>> \o item \o <<62>>

\* 'PREFIX wdt: <http://www.wikidata.org/prop/direct/>', 'VALUES ?wdItem {
\* ${wdItemsValues} }', '?wdItem wdt:P625 ?coord_raw .'
entityCoordsQuery(items) ==
  <<80,82,69,70,73,88,32,119,100,116,58,32,60,104,116,116,112,58,47,47,119,119,119,46,119,105,107,105,100,97,116,97,46,111,114,103,47,112,114,111,112,47,100,105,114,101,99,116,47,62,10>>
  \o <<86,65,76,85,69,83,32,63,119,100,73,116,101,109,32,123,32>>
  \o Values(items) \o <<32,125,10>>
  \o <<63,119,100,73,116,101,109,32,119,100,116,58,80,54,50,53,32,63,99,111,111,114,100,95,114,97,119,32,46>>

\* 'PREFIX wdt: <http://www.wikidata.org/prop/direct/>', 'VALUES
\* ?residenceWdItem { ${residenceWdItemsValues} }', '?residenceWdItem
\* wdt:P625 ?resCoord_raw .'
residenceCoordsQuery(items) ==
  <<80,82,69,70,73,88,32,119,100,116,58,32,60,104,116,116,112,58,47,47,119,119,119,46,119,105,107,105,100,97,116,97,46,111,114,103,47,112,114,111,112,47,100,105,114,101,99,116,47,62,10>>
  \o <<86,65,76,85,69,83,32,63,114,101,115,105,100,101,110,99,101,87,100,73,116,101,109,32,123,32>>
  \o Values(items) \o <<32,125,10>>
  \o <<63,114,101,115,105,100,101,110,99,101,87,100,73,116,101,109,32,119,100,116,58,80,54,50,53,32,63,114,101,115,67,111,111,114,100,95,114,97,119,32,46>>

\* a request the frontend posts to /api/sparql, with the endpoint the proxy
\* selects for its text
Posted(kind, text) == [kind |-> kind, url |-> endpoint(text)]

\* response.data of a search: the term it answers, the number of bindings
\* (GeoSearch) or of search entries (Search), whether the search member is
\* present, the Wikidata items its bindings name and the items that carry a
\* coord_raw or a resCoord_raw member
Data(term, n, search, items, residences) ==
  [isNull |-> FALSE, term |-> term, n |-> n, search |-> search,
   wdItems |-> items, residenceWdItems |-> residences,
   coord_raw |-> {}, resCoord_raw |-> {}]

NoData ==
  [isNull |-> TRUE, term |-> <<>>, n |-> 0, search |-> FALSE,
   wdItems |-> {}, residenceWdItems |-> {}, coord_raw |-> {},
   resCoord_raw |-> {}]

\* results.value.results.bindings.forEach(resultBinding => ...): the items
\* of the coordinates response that the displayed results name receive
\* their coord_raw; with results.value null the access throws inside the
\* inner try and nothing is merged
MergeEntityCoords(shown, found) ==
  IF shown.isNull THEN shown
  ELSE [shown EXCEPT !.coord_raw = @ \cup (found \cap shown.wdItems)]

MergeResidenceCoords(shown, found) ==
  IF shown.isNull THEN shown
  ELSE [shown EXCEPT !.resCoord_raw = @ \cup (found \cap shown.residenceWdItems)]

\* processResults(results.value).points.length > 0
HasPoints(shown) ==
  /\ ~shown.isNull
  /\ shown.coord_raw \cup shown.resCoord_raw # {}

\* fault variant: a failed coordinates lookup is reported as a failed search
CoordsCatch_Report(shown) == MSG_SEARCH_FAILED

\* catch (err) { console.error(...) } around each coordinates lookup: the
\* error message shown is left as it is
CoordsCatch(shown) == shown

\* error.value = err.response?.data?.message || "Error performing search"
GeoSearchCatch(err) ==
  IF err.hasResponse /\ err.message # "" THEN err.message
  ELSE MSG_SEARCH_FAILED

\* error.value = err.message || "Error performing search"
SearchCatch(err) == IF err.text # "" THEN err.text ELSE MSG_SEARCH_FAILED

\* Math.ceil(count / itemsPerPage)
CeilPages(count) == (count + itemsPerPage - 1) \div itemsPerPage

\* fault variant: nextPage without its bound
NextPageOf_Unbounded(page, pages) == page + 1

\* if (currentPage.value < totalPages.value) currentPage.value++
NextPageOf(page, pages) == IF page < pages THEN page + 1 ELSE page

\* if (currentPage.value > 1) currentPage.value--
PrevPageOf(page) == IF page > 1 THEN page - 1 ELSE page

\* formattedResults.value.slice(start, start + itemsPerPage).length
SliceLength(count, page) ==
  LET start == (page - 1) * itemsPerPage
      stop == IF start + itemsPerPage < count THEN start + itemsPerPage
              ELSE count
  IN IF stop > start THEN stop - start ELSE 0

(***************************************************************************)
(* State.                                                                  *)
(***************************************************************************)
VARIABLES
  env,        \* the family the environment draws its inputs from
  now,        \* Date.now(), in seconds since the cache was constructed
  ticks,      \* number of clock advances so far
  cache,      \* queryCache: key -> entry
  server,     \* the server entry file that is running
  route,      \* per request: its method and path and the handler it reached
  pc,         \* per request: "new", "awaiting" (suspended in await axios),
              \* "done" (answered), "crashed" (the handler threw: its promise
              \* rejected and no response was written)
  query,      \* per request: req.body.query
  key,        \* per request: cacheKey
  url,        \* per request: the endpoint of the outbound call ("" if none)
  sent,       \* per request: the text the outbound call carries in its params
  format,     \* per request: the format parameter of the outbound call
  upstream,   \* per request: how the outbound call settled
  resp,       \* per request: the response written
  calls,      \* per request: number of outbound calls issued
  gets,       \* per request: number of queryCache.get calls
  sets,       \* per request: number of queryCache.set calls
  met,        \* per request: the entry its get found under the key, live or
              \* expired, and the time of the get (history)
  searchQuery,      \* the search field of the component
  lastSearchQuery,  \* the term of the last search started
  loading,          \* a search is running
  error,            \* the error message shown, NoError for null
  results,          \* the results shown, NoData for null
  hasCoordinates,   \* GeoSearch: the results carry a point for the map
  currentPage,      \* the page of the results shown
  run               \* per invocation of executeSearch: its position, its
                    \* term, the items of its initial results, the requests
                    \* it posted and how its coordinate lookups settled

vars == <<env, now, ticks, cache, server, route, pc, query, key, url, sent, format,
          upstream, resp, calls, gets, sets, met, searchQuery,
          lastSearchQuery, loading, error, results, hasCoordinates,
          currentPage, run>>

frontend == <<searchQuery, lastSearchQuery, loading, error, results,
              hasCoordinates, currentPage, run>>

backend == <<now, ticks, cache, server, route, pc, query, key, url, sent,
             format, upstream, resp, calls, gets, sets, met>>

Component(e) == IF e = "search" THEN "Search" ELSE "GeoSearch"

\* <button type="submit" :disabled="loading">
CanSubmit == env = "overlap" \/ ~loading

IdleRun ==
  [pc |-> "idle", term |-> <<>>, wdItems |-> {}, residenceWdItems |-> {},
   posted |-> {}, entity |-> "none", residence |-> "none"]

InitFrontend ==
  /\ searchQuery = <<>>
  /\ lastSearchQuery = <<>>
  /\ loading = FALSE
  /\ error = NoError
  /\ results = NoData
  /\ hasCoordinates = FALSE
  /\ currentPage = 1
  /\ run = [i \in Searches |-> IdleRun]

NoEntry == [v |-> JsUndefined, t |-> 0, at |-> 0, q |-> <<>>]
NotMet == [found |-> FALSE, entry |-> NoEntry, time |-> 0]
Met(c, k, time) ==
  IF k \in DOMAIN c THEN [found |-> TRUE, entry |-> c[k], time |-> time]
  ELSE NotMet

InitEnv(e) ==
  /\ env = e
  /\ now = 0
  /\ ticks = 0
  /\ cache = <<>>
  /\ server \in ServersOf(e)
  /\ route = [r \in Requests |-> NoRoute]
  /\ pc = [r \in Requests |-> "new"]
  /\ query = [r \in Requests |-> JsUndefined]
  /\ key = [r \in Requests |-> <<>>]
  /\ url = [r \in Requests |-> ""]
  /\ sent = [r \in Requests |-> JsUndefined]
  /\ format = [r \in Requests |-> ""]
  /\ upstream = [r \in Requests |-> UpstreamNone]
  /\ resp = [r \in Requests |-> NoResponse]
  /\ calls = [r \in Requests |-> 0]
  /\ gets = [r \in Requests |-> 0]
  /\ sets = [r \in Requests |-> 0]
  /\ met = [r \in Requests |-> NotMet]
  /\ InitFrontend

Init == InitEnv("proxy")
InitFailing == InitEnv("failing")
InitSelector == InitEnv("single")
InitRouting == InitEnv("routing")
InitServer == InitEnv("server")

(***************************************************************************)
(* router.post('/'), up to the await: validation, cache lookup, endpoint   *)
(* selection and the outbound call.                                        *)
(***************************************************************************)
\* fault variant: once the cache holds an entry, every outbound call goes to
\* Wikidata
Receive_StickyRouting(r, q) ==
  /\ r <= Clients(env)
  /\ pc[r] = "new"
  /\ IF r = 1 THEN TRUE ELSE pc[r - 1] # "new"
  /\ route' = [route EXCEPT ![r] = SparqlRoute]
  /\ query' = [query EXCEPT ![r] = q]
  /\ IF Invalid(q)
       THEN /\ resp' = [resp EXCEPT ![r] = RequiredResponse]
            /\ pc' = [pc EXCEPT ![r] = "done"]
            /\ UNCHANGED <<cache, key, url, sent, format, calls, gets, met>>
       ELSE IF BufferFromThrows(q)
       THEN /\ pc' = [pc EXCEPT ![r] = "crashed"]
            /\ UNCHANGED <<cache, key, url, sent, format, resp, calls, gets, met>>
       ELSE LET k == cacheKey(q.str)
                cachedResult == CacheGet(cache, k, now)
            IN  /\ key' = [key EXCEPT ![r] = k]
                /\ gets' = [gets EXCEPT ![r] = @ + 1]
                /\ cache' = CacheAfterGet(cache, k, now)
                /\ met' = [met EXCEPT ![r] = Met(cache, k, now)]
                /\ IF IsHit(cachedResult)
                     THEN /\ resp' = [resp EXCEPT ![r] = ResultResponse(cachedResult)]
                          /\ pc' = [pc EXCEPT ![r] = "done"]
                          /\ UNCHANGED <<url, sent, format, calls>>
                     ELSE /\ url' = [url EXCEPT ![r] =
                                       IF DOMAIN cache = {} THEN endpoint(q.str)
                                       ELSE WIKIDATA_SPARQL_ENDPOINT]
                          /\ sent' = [sent EXCEPT ![r] = params(q).query]
                          /\ format' = [format EXCEPT ![r] = params(q).format]
                          /\ calls' = [calls EXCEPT ![r] = @ + 1]
                          /\ pc' = [pc EXCEPT ![r] = "awaiting"]
                          /\ UNCHANGED resp
  /\ UNCHANGED <<frontend, env, now, ticks, server, upstream, sets>>

\* fault variant: single flight; a request that misses while another request
\* awaits the outbound call for the same key waits for that call and issues
\* none of its own
Receive_SingleFlight(r, q) ==
  /\ r <= Clients(env)
  /\ pc[r] = "new"
  /\ IF r = 1 THEN TRUE ELSE pc[r - 1] # "new"
  /\ route' = [route EXCEPT ![r] = SparqlRoute]
  /\ query' = [query EXCEPT ![r] = q]
  /\ IF Invalid(q)
       THEN /\ resp' = [resp EXCEPT ![r] = RequiredResponse]
            /\ pc' = [pc EXCEPT ![r] = "done"]
            /\ UNCHANGED <<cache, key, url, sent, format, calls, gets, met>>
       ELSE IF BufferFromThrows(q)
       THEN /\ pc' = [pc EXCEPT ![r] = "crashed"]
            /\ UNCHANGED <<cache, key, url, sent, format, resp, calls, gets, met>>
       ELSE LET k == cacheKey(q.str)
                cachedResult == CacheGet(cache, k, now)
                inFlight == \E o \in Requests : pc[o] = "awaiting" /\ key[o] = k
            IN  /\ key' = [key EXCEPT ![r] = k]
                /\ gets' = [gets EXCEPT ![r] = @ + 1]
                /\ cache' = CacheAfterGet(cache, k, now)
                /\ met' = [met EXCEPT ![r] = Met(cache, k, now)]
                /\ IF IsHit(cachedResult)
                     THEN /\ resp' = [resp EXCEPT ![r] = ResultResponse(cachedResult)]
                          /\ pc' = [pc EXCEPT ![r] = "done"]
                          /\ UNCHANGED <<url, sent, format, calls>>
                     ELSE /\ url' = [url EXCEPT ![r] = endpoint(q.str)]
                          /\ sent' = [sent EXCEPT ![r] = params(q).query]
                          /\ format' = [format EXCEPT ![r] = params(q).format]
                          /\ calls' = [calls EXCEPT ![r] =
                                         IF inFlight THEN @ ELSE @ + 1]
                          /\ pc' = [pc EXCEPT ![r] = "awaiting"]
                          /\ UNCHANGED resp
  /\ UNCHANGED <<frontend, env, now, ticks, server, upstream, sets>>

Receive(r, q) ==
  /\ r <= Clients(env)
  /\ pc[r] = "new"
  /\ IF r = 1 THEN TRUE ELSE pc[r - 1] # "new"
  /\ route' = [route EXCEPT ![r] = SparqlRoute]
  /\ query' = [query EXCEPT ![r] = q]
  /\ IF Invalid(q)
       THEN /\ resp' = [resp EXCEPT ![r] = RequiredResponse]
            /\ pc' = [pc EXCEPT ![r] = "done"]
            /\ UNCHANGED <<cache, key, url, sent, format, calls, gets, met>>
       ELSE IF BufferFromThrows(q)
       THEN /\ pc' = [pc EXCEPT ![r] = "crashed"]
            /\ UNCHANGED <<cache, key, url, sent, format, resp, calls, gets, met>>
       ELSE LET k == cacheKey(q.str)
                cachedResult == CacheGet(cache, k, now)
            IN  /\ key' = [key EXCEPT ![r] = k]
                /\ gets' = [gets EXCEPT ![r] = @ + 1]
                /\ cache' = CacheAfterGet(cache, k, now)
                /\ met' = [met EXCEPT ![r] = Met(cache, k, now)]
                /\ IF IsHit(cachedResult)
                     THEN /\ resp' = [resp EXCEPT ![r] = ResultResponse(cachedResult)]
                          /\ pc' = [pc EXCEPT ![r] = "done"]
                          /\ UNCHANGED <<url, sent, format, calls>>
                     ELSE /\ url' = [url EXCEPT ![r] = endpoint(q.str)]
                          /\ sent' = [sent EXCEPT ![r] = params(q).query]
                          /\ format' = [format EXCEPT ![r] = params(q).format]
                          /\ calls' = [calls EXCEPT ![r] = @ + 1]
                          /\ pc' = [pc EXCEPT ![r] = "awaiting"]
                          /\ UNCHANGED resp
  /\ UNCHANGED <<frontend, env, now, ticks, server, upstream, sets>>

(***************************************************************************)
(* The continuation after the await: the outbound call settled with        *)
(* `outcome`.                                                              *)
(***************************************************************************)
Settle(r, outcome) ==
  /\ pc[r] = "awaiting"
  /\ upstream' = [upstream EXCEPT ![r] = outcome]
  /\ cache' = CacheAfterCall(cache, key[r], outcome, now, query[r].str)
  /\ sets' = [sets EXCEPT ![r] =
                IF outcome.kind = "response" /\ outcome.status = 200
                  THEN @ + 1 ELSE @]
  /\ resp' = [resp EXCEPT ![r] =
                IF outcome.kind = "response" /\ outcome.status = 200
                  THEN OnResolve(outcome.data)
                  ELSE IF OnCatchThrows(outcome) THEN @
                  ELSE OnCatch(outcome, query[r].str)]
  /\ pc' = [pc EXCEPT ![r] =
              IF /\ ~(outcome.kind = "response" /\ outcome.status = 200)
                 /\ OnCatchThrows(outcome)
                THEN "crashed" ELSE "done"]
  /\ UNCHANGED <<frontend, env, now, ticks, server, route, query, key, url, sent, format, calls,
                 gets, met>>

UpstreamSuccess(r, data) == Settle(r, UpstreamOk(data))

UpstreamFailure(r, failure) == Settle(r, failure)

(***************************************************************************)
(* Time passes.  The periodic sweep of node-cache runs every checkperiod;  *)
(* the model lets it run at any moment from the first period on, which     *)
(* includes every schedule of the timer.                                   *)
(***************************************************************************)
\* the selector family needs no passage of time: its clock advances once
TickBudget(e) == IF e = "single" THEN 1 ELSE MaxTicks

Tick(d) ==
  /\ ticks < TickBudget(env)
  /\ ticks' = ticks + 1
  /\ now' = now + d
  /\ UNCHANGED <<frontend, env, cache, server, route, pc, query, key, url, sent, format,
                 upstream, resp, calls, gets, sets, met>>

CheckData ==
  /\ now >= checkperiod
  /\ cache' = CacheSweep(cache, now)
  /\ UNCHANGED <<frontend, env, now, ticks, server, route, pc, query, key, url, sent, format,
                 upstream, resp, calls, gets, sets, met>>

(***************************************************************************)
(* router.get('/') of the search route, up to the await.                   *)
(***************************************************************************)
Search(r, q) ==
  /\ r <= Clients(env)
  /\ pc[r] = "new"
  /\ IF r = 1 THEN TRUE ELSE pc[r - 1] # "new"
  /\ route' = [route EXCEPT ![r] =
                 [method |-> "GET", path |-> "/api/search", handler |-> "search"]]
  /\ query' = [query EXCEPT ![r] = q]
  /\ IF SearchInvalid(q)
       THEN /\ resp' = [resp EXCEPT ![r] = SearchRequiredResponse]
            /\ pc' = [pc EXCEPT ![r] = "done"]
            /\ UNCHANGED <<url, sent, format, calls>>
       ELSE /\ url' = [url EXCEPT ![r] = WIKIBASE_API_URL]
            /\ sent' = [sent EXCEPT ![r] = q]
            /\ format' = [format EXCEPT ![r] = "json"]
            /\ calls' = [calls EXCEPT ![r] = @ + 1]
            /\ pc' = [pc EXCEPT ![r] = "searching"]
            /\ UNCHANGED resp
  /\ UNCHANGED <<frontend, env, now, ticks, cache, server, key, upstream, gets, sets, met>>

\* the continuation after the await of the search route
SearchSettled(r, outcome) ==
  /\ pc[r] = "searching"
  /\ upstream' = [upstream EXCEPT ![r] = outcome]
  /\ resp' = [resp EXCEPT ![r] =
                IF outcome.kind = "response" /\ outcome.status = 200
                  THEN SearchOnResolve(outcome.data)
                  ELSE SearchOnCatch(outcome)]
  /\ pc' = [pc EXCEPT ![r] = "done"]
  /\ UNCHANGED <<frontend, env, now, ticks, cache, server, route, query, key, url, sent, format,
                 calls, gets, sets, met>>

(***************************************************************************)
(* router.get('/:entityId') of the properties route, up to the await.      *)
(***************************************************************************)
SearchProperties(r, entityId) ==
  /\ r <= Clients(env)
  /\ pc[r] = "new"
  /\ IF r = 1 THEN TRUE ELSE pc[r - 1] # "new"
  /\ route' = [route EXCEPT ![r] =
                 [method |-> "GET", path |-> "/api/searchProperties/:entityId",
                  handler |-> "searchProperties"]]
  /\ query' = [query EXCEPT ![r] = entityId]
  /\ url' = [url EXCEPT ![r] = WIKIBASE_SPARQL_URL]
  /\ sent' = [sent EXCEPT ![r] = JsString(sparqlQuery(entityId.str))]
  /\ format' = [format EXCEPT ![r] = "json"]
  /\ calls' = [calls EXCEPT ![r] = @ + 1]
  /\ pc' = [pc EXCEPT ![r] = "fetching"]
  /\ UNCHANGED <<frontend, env, now, ticks, cache, server, key, upstream, resp, gets,
                 sets, met>>

\* the continuation after the await of the properties route
PropertiesSettled(r, outcome) ==
  /\ pc[r] = "fetching"
  /\ upstream' = [upstream EXCEPT ![r] = outcome]
  /\ resp' = [resp EXCEPT ![r] =
                IF outcome.kind = "response" /\ outcome.status = 200
                  THEN PropertiesOnResolve(outcome.data)
                  ELSE PropertiesOnCatch(outcome)]
  /\ pc' = [pc EXCEPT ![r] = "done"]
  /\ UNCHANGED <<frontend, env, now, ticks, cache, server, route, query, key, url, sent, format,
                 calls, gets, sets, met>>

\* no mounted route matches the method and path: Express answers 404
NotFound(r, method, path, q) ==
  /\ r <= Clients(env)
  /\ pc[r] = "new"
  /\ IF r = 1 THEN TRUE ELSE pc[r - 1] # "new"
  /\ route' = [route EXCEPT ![r] =
                 [method |-> method, path |-> path, handler |-> "notFound"]]
  /\ query' = [query EXCEPT ![r] = q]
  /\ resp' = [resp EXCEPT ![r] = NotFoundResponse]
  /\ pc' = [pc EXCEPT ![r] = "done"]
  /\ UNCHANGED <<frontend, env, now, ticks, cache, server, key, url, sent, format, upstream,
                 calls, gets, sets, met>>

(***************************************************************************)
(* The server takes a request and hands it to the handler of the mounted   *)
(* route of its method and path.                                           *)
(***************************************************************************)
Dispatch(r, method, path, q) ==
  LET h == Handler(server, method, path)
  IN  IF h = "sparql" THEN Receive(r, q)
      ELSE IF h = "search" THEN Search(r, q)
      ELSE IF h = "searchProperties" THEN SearchProperties(r, q)
      ELSE NotFound(r, method, path, q)

\* how an outbound call of the search and properties routes settles
Outcomes(e) == {UpstreamOk(data) : data \in Bodies(e)} \cup Failures(e)

Next ==
  \/ \E r \in Requests : \E q \in Queries(env) : Receive(r, q)
  \/ \E r \in Requests : \E data \in Bodies(env) : UpstreamSuccess(r, data)
  \/ \E r \in Requests : \E failure \in Failures(env) : UpstreamFailure(r, failure)
  \/ \E d \in Steps : Tick(d)
  \/ CheckData

Spec == Init /\ [][Next]_vars
SpecFailing == InitFailing /\ [][Next]_vars
SpecSelector == InitSelector /\ [][Next]_vars
SpecRouting == InitRouting /\ [][Next]_vars

NextServer ==
  \/ \E r \in Requests : \E target \in Targets : \E q \in Inputs(env, target) :
       Dispatch(r, target.method, target.path, q)
  \/ \E r \in Requests : \E data \in Bodies(env) : UpstreamSuccess(r, data)
  \/ \E r \in Requests : \E failure \in Failures(env) : UpstreamFailure(r, failure)
  \/ \E r \in Requests : \E outcome \in Outcomes(env) : SearchSettled(r, outcome)
  \/ \E r \in Requests : \E outcome \in Outcomes(env) : PropertiesSettled(r, outcome)

SpecServer == InitServer /\ [][NextServer]_vars

(***************************************************************************)
(* The search components.  An invocation of executeSearch runs up to its   *)
(* first await in one step and resumes when the awaited request settles.   *)
(* The submit button of the form is disabled while loading is true, so the *)
(* form starts no search then; the family "overlap" calls executeSearch    *)
(* without the form, while an earlier invocation is still awaiting.        *)
(* Every 2xx body has the shape the component reads: results.bindings for  *)
(* /api/sparql, and for /api/search an object with or without search.      *)
(***************************************************************************)
\* resultsCount, totalPages and the length of paginatedResults
resultsCount == IF results.isNull \/ ~results.search THEN 0 ELSE results.n
totalPages == CeilPages(resultsCount)
paginatedResults == SliceLength(resultsCount, currentPage)

\* v-model="searchQuery": the user edits the search field
TypeTerm(text) ==
  /\ env \in {"geosearch", "search", "overlap"}
  /\ searchQuery # text
  /\ searchQuery' = text
  /\ UNCHANGED <<lastSearchQuery, loading, error, results, hasCoordinates,
                 currentPage, run>>
  /\ UNCHANGED <<env, backend>>

\* executeSearch, up to its first await
executeSearch(i) ==
  /\ env \in {"geosearch", "search", "overlap"}
  /\ CanSubmit
  /\ run[i].pc = "idle"
  /\ IF i = 1 THEN TRUE ELSE run[i - 1].pc # "idle"
  /\ IF Blank(searchQuery)
       THEN /\ error' = MSG_ENTER_TERM
            /\ UNCHANGED <<lastSearchQuery, loading, results, currentPage, run>>
       ELSE /\ loading' = TRUE
            /\ error' = NoError
            /\ results' = NoData
            /\ lastSearchQuery' = trim(searchQuery)
            /\ currentPage' = 1
            /\ run' = [run EXCEPT ![i] =
                 [@ EXCEPT !.pc = IF Component(env) = "Search" THEN "get"
                                  ELSE "initial",
                           !.term = trim(searchQuery),
                           !.posted =
                             IF Component(env) = "Search"
                               THEN {[kind |-> "search", url |-> "/api/search"]}
                             ELSE {Posted("initial",
                                          initialQuery(trim(searchQuery)))}]]
  /\ UNCHANGED <<searchQuery, hasCoordinates>>
  /\ UNCHANGED <<env, backend>>

\* processResults, hasCoordinates and the finally block
Finish(i, shown, runs) ==
  /\ hasCoordinates' = HasPoints(shown)
  /\ loading' = FALSE
  /\ run' = [runs EXCEPT ![i].pc = "done"]

\* the residence lookup, or the end of the search when no binding names a
\* residence item
ThenResidence(i, shown, runs) ==
  IF runs[i].residenceWdItems # {}
    THEN /\ run' = [runs EXCEPT
                      ![i].pc = "residence",
                      ![i].posted = @ \cup
                        {Posted("residence",
                                residenceCoordsQuery(runs[i].residenceWdItems))}]
         /\ UNCHANGED <<hasCoordinates, loading>>
  ELSE Finish(i, shown, runs)

\* the initial query resolved: results.value = response.data
InitialResolved(i, data) ==
  /\ run[i].pc = "initial"
  /\ data.term = run[i].term
  /\ results' = data
  /\ LET runs == [run EXCEPT ![i].wdItems = data.wdItems,
                             ![i].residenceWdItems = data.residenceWdItems]
     IN IF data.n > 0 /\ data.wdItems # {}
          THEN /\ run' = [runs EXCEPT
                            ![i].pc = "entity",
                            ![i].posted = @ \cup
                              {Posted("entity", entityCoordsQuery(data.wdItems))}]
               /\ UNCHANGED <<hasCoordinates, loading>>
        ELSE IF data.n > 0 THEN ThenResidence(i, data, runs)
        ELSE Finish(i, data, runs)
  /\ UNCHANGED <<searchQuery, lastSearchQuery, error, currentPage>>
  /\ UNCHANGED <<env, backend>>

\* the initial query rejected: the outer catch and the finally block
InitialRejected(i, err) ==
  /\ run[i].pc = "initial"
  /\ error' = GeoSearchCatch(err)
  /\ loading' = FALSE
  /\ run' = [run EXCEPT ![i].pc = "done"]
  /\ UNCHANGED <<searchQuery, lastSearchQuery, results, hasCoordinates,
                 currentPage>>
  /\ UNCHANGED <<env, backend>>

\* the entity coordinates resolved: they are merged into results.value
EntityCoordsResolved(i, found) ==
  /\ run[i].pc = "entity"
  /\ found \subseteq run[i].wdItems
  /\ results' = MergeEntityCoords(results, found)
  /\ ThenResidence(i, results', [run EXCEPT ![i].entity = "ok"])
  /\ UNCHANGED <<searchQuery, lastSearchQuery, error, currentPage>>
  /\ UNCHANGED <<env, backend>>

\* the entity coordinates rejected: the inner catch
EntityCoordsRejected(i) ==
  /\ run[i].pc = "entity"
  /\ error' = CoordsCatch(error)
  /\ ThenResidence(i, results, [run EXCEPT ![i].entity = "failed"])
  /\ UNCHANGED <<searchQuery, lastSearchQuery, results, currentPage>>
  /\ UNCHANGED <<env, backend>>

\* the residence coordinates resolved
ResidenceCoordsResolved(i, found) ==
  /\ run[i].pc = "residence"
  /\ found \subseteq run[i].residenceWdItems
  /\ results' = MergeResidenceCoords(results, found)
  /\ Finish(i, results', [run EXCEPT ![i].residence = "ok"])
  /\ UNCHANGED <<searchQuery, lastSearchQuery, error, currentPage>>
  /\ UNCHANGED <<env, backend>>

\* the residence coordinates rejected: the inner catch
ResidenceCoordsRejected(i) ==
  /\ run[i].pc = "residence"
  /\ error' = CoordsCatch(error)
  /\ Finish(i, results, [run EXCEPT ![i].residence = "failed"])
  /\ UNCHANGED <<searchQuery, lastSearchQuery, results, currentPage>>
  /\ UNCHANGED <<env, backend>>

\* Search.vue: axios.get(/api/search) resolved
SearchResolved(i, data) ==
  /\ run[i].pc = "get"
  /\ data.term = run[i].term
  /\ IF ~data.search
       THEN /\ error' = SearchCatch([text |-> "No results found"])
            /\ UNCHANGED results
       ELSE /\ results' = data
            /\ UNCHANGED error
  /\ loading' = FALSE
  /\ run' = [run EXCEPT ![i].pc = "done"]
  /\ UNCHANGED <<searchQuery, lastSearchQuery, hasCoordinates, currentPage>>
  /\ UNCHANGED <<env, backend>>

\* Search.vue: axios.get(/api/search) rejected
SearchRejected(i, err) ==
  /\ run[i].pc = "get"
  /\ error' = SearchCatch(err)
  /\ loading' = FALSE
  /\ run' = [run EXCEPT ![i].pc = "done"]
  /\ UNCHANGED <<searchQuery, lastSearchQuery, results, hasCoordinates,
                 currentPage>>
  /\ UNCHANGED <<env, backend>>

nextPage ==
  /\ env \in {"geosearch", "search", "overlap"}
  /\ currentPage' = NextPageOf(currentPage, totalPages)
  /\ UNCHANGED <<searchQuery, lastSearchQuery, loading, error, results,
                 hasCoordinates, run>>
  /\ UNCHANGED <<env, backend>>

prevPage ==
  /\ env \in {"geosearch", "search", "overlap"}
  /\ currentPage' = PrevPageOf(currentPage)
  /\ UNCHANGED <<searchQuery, lastSearchQuery, loading, error, results,
                 hasCoordinates, run>>
  /\ UNCHANGED <<env, backend>>

\* search terms typed: none, a blank, 'a', 'wdt:P625' and an accented
\* capital with a quote and a trailing blank
FrontTerms == {<<>>, <<32>>, <<97>>, LIT_P625, <<193, 39, 32>>}

\* numbers of results: none, one page, three pages
Counts == {0, 5, 25}

GeoData(term) ==
  {Data(term, n, TRUE, items, residences) :
     n \in Counts \ {0}, items \in SUBSET WdItems,
     residences \in SUBSET WdItems}
  \cup {Data(term, 0, TRUE, {}, {})}

SearchData(term) ==
  {Data(term, n, TRUE, {}, {}) : n \in Counts}
  \cup {Data(term, 0, FALSE, {}, {})}

\* rejections of axios: a response of the backend with its message, and no
\* response
FrontFailures ==
  {[hasResponse |-> TRUE, message |-> "SPARQL endpoint error: Bad Gateway",
    text |-> "Request failed with status code 500"],
   [hasResponse |-> FALSE, message |-> "", text |-> "Network Error"]}

NextGeoSearch ==
  \/ \E text \in FrontTerms : TypeTerm(text)
  \/ \E i \in Searches : executeSearch(i)
  \/ \E i \in Searches : \E data \in GeoData(run[i].term) : InitialResolved(i, data)
  \/ \E i \in Searches : \E err \in FrontFailures : InitialRejected(i, err)
  \/ \E i \in Searches : \E found \in SUBSET WdItems : EntityCoordsResolved(i, found)
  \/ \E i \in Searches : EntityCoordsRejected(i)
  \/ \E i \in Searches : \E found \in SUBSET WdItems : ResidenceCoordsResolved(i, found)
  \/ \E i \in Searches : ResidenceCoordsRejected(i)
  \/ nextPage
  \/ prevPage

NextFrontend ==
  \/ NextGeoSearch
  \/ \E i \in Searches : \E data \in SearchData(run[i].term) : SearchResolved(i, data)
  \/ \E i \in Searches : \E err \in FrontFailures : SearchRejected(i, err)

SpecFrontend ==
  (InitEnv("geosearch") \/ InitEnv("search")) /\ [][NextFrontend]_vars
SpecOverlap == InitEnv("overlap") /\ [][NextGeoSearch]_vars

(***************************************************************************)
(* Properties.  They are stated over what a client and the upstream can    *)
(* observe (requests, responses, outbound calls) and over the history      *)
(* variables, with their own reading of "occurs in" and of the TTL.        *)
(***************************************************************************)
\* the text t occurs in the text s
Occurs(t, s) ==
  \E i \in 1..(Len(s) - Len(t) + 1) : SubSeq(s, i, i + Len(t) - 1) = t

\* the request carries no query or an empty one
NoQuery(r) ==
  \/ query[r].type = "undefined"
  \/ query[r].type = "string" /\ query[r].str = <<>>

\* the outbound call of the request failed, in any class
FailedCall(o) ==
  \/ o.kind \in {"request", "setup"}
  \/ o.kind = "response" /\ o.status \notin 200..299

\* the get of the request found an entry stored at most 3600 s earlier that
\* holds a truthy body
LiveHit(r) ==
  /\ met[r].found
  /\ met[r].time <= met[r].entry.at + 3600
  /\ Truthy(met[r].entry.v)

\* the request was answered from the cache
FromCache(r) == pc[r] = "done" /\ gets[r] = 1 /\ calls[r] = 0

\* C1: a request that misses the cache is sent to the Wikidata endpoint if
\* and only if its query text contains 'wdt:P625' and at least one of
\* '<http://www.wikidata.org/entity/', 'VALUES ?wdItem',
\* 'VALUES ?residenceWdItem'; otherwise, in particular whenever 'wdt:P625'
\* is missing, it is sent to the Wikibase endpoint.
C1_EndpointSelection ==
  \A r \in Requests :
    calls[r] > 0 =>
      LET q == query[r].str
          wikidata ==
            /\ Occurs(LIT_P625, q)
            /\ \/ Occurs(LIT_WD_ENTITY, q)
               \/ Occurs(LIT_VALUES_WDITEM, q)
               \/ Occurs(LIT_VALUES_RESIDENCE, q)
      IN  /\ wikidata => url[r] = WIKIDATA_SPARQL_ENDPOINT
          /\ ~wikidata => url[r] = WIKIBASE_SPARQL_ENDPOINT
          /\ ~Occurs(LIT_P625, q) => url[r] = WIKIBASE_SPARQL_ENDPOINT

\* a query 'VALUES ?residenceWdItem' followed by 'wdt:P625' went to Wikidata
C1_Witness ==
  \E r \in Requests :
    /\ query[r].str = LIT_VALUES_RESIDENCE \o LIT_P625
    /\ calls[r] = 1
    /\ url[r] = WIKIDATA_SPARQL_ENDPOINT

\* C2 (as claimed): when a query text is executed a second time, after the
\* first execution was answered 200 from an upstream 2xx and while the entry
\* of the first is within its 3600 s, the second execution issues no
\* upstream call and is answered with the body of the first.
C2_Idempotence ==
  [][\A r1, r2 \in Requests :
       ( /\ r1 # r2
         /\ \A r3 \in Requests \ {r1, r2} : pc[r3] = "new"
         /\ pc[r1] = "done"
         /\ upstream[r1].kind = "response" /\ upstream[r1].status = 200
         /\ resp[r1].status = 200
         /\ key[r1] \in DOMAIN cache
         /\ now < cache[key[r1]].at + 3600
         /\ pc[r2] = "new" /\ pc'[r2] # "new"
         /\ query'[r2] = query[r1] )
       => /\ calls'[r2] = 0
          /\ resp'[r2] = resp[r1]]_vars

C4_KeyInjective ==
  \A r1, r2 \in Requests :
    (gets[r1] = 1 /\ gets[r2] = 1 /\ query[r1] # query[r2])
      => key[r1] # key[r2]

\* C5: a request without a query, or with an empty one, is answered 400,
\* issues no outbound call and makes no cache get or set.
C5_InvalidRequest ==
  \A r \in Requests :
    (pc[r] # "new" /\ NoQuery(r)) =>
      /\ pc[r] = "done"
      /\ resp[r].status = 400
      /\ calls[r] = 0 /\ url[r] = "" /\ upstream[r] = UpstreamNone
      /\ gets[r] = 0 /\ sets[r] = 0 /\ ~met[r].found

\* a request without the query field was answered 400
C5_Witness ==
  \E r \in Requests :
    pc[r] = "done" /\ query[r] = JsUndefined /\ resp[r].status = 400

\* C6: when the outbound request got no response, the answer is 503 and its
\* body holds "Service unavailable".
C6_Unreachable ==
  \A r \in Requests :
    (pc[r] = "done" /\ upstream[r].kind = "request") =>
      /\ resp[r].status = 503
      /\ resp[r].errorText = "Service unavailable"

\* a request whose outbound call got no response was answered
C6_Witness ==
  \E r \in Requests :
    pc[r] = "done" /\ upstream[r].kind = "request" /\ resp[r].status = 503

C8_AtMostOneCall ==
  \A r \in Requests :
    /\ calls[r] <= 1
    /\ (pc[r] # "new" /\ NoQuery(r)) => (calls[r] = 0 /\ resp[r].status = 400)
    /\ LiveHit(r) => calls[r] = 0
    /\ (pc[r] # "new" /\ ~NoQuery(r) /\ ~LiveHit(r)) => calls[r] = 1
    /\ upstream[r].kind # "none" => calls[r] = 1

\* one request failed to set up its call and made one call; another was
\* answered from a live entry and made none
C8_Witness ==
  \E r1, r2 \in Requests :
    /\ pc[r1] = "done" /\ upstream[r1].kind = "setup" /\ calls[r1] = 1
    /\ pc[r2] = "done" /\ LiveHit(r2) /\ calls[r2] = 0

\* C9: the step that answers a failed outbound call leaves the cache as it
\* was, and a request whose query text was only ever asked by requests that
\* failed misses the cache and calls upstream.
C9_FailuresNotCached ==
  [][ /\ \A r \in Requests :
           (pc[r] = "awaiting" /\ pc'[r] = "done" /\ FailedCall(upstream'[r]))
             => cache' = cache
      /\ \A r2 \in Requests :
           ( /\ pc[r2] = "new" /\ pc'[r2] # "new"
             /\ ~(query'[r2].type = "undefined" \/ query'[r2].str = <<>>)
             /\ \A r1 \in Requests \ {r2} :
                  (pc[r1] # "new" /\ query[r1] = query'[r2])
                    => (pc[r1] = "done" /\ FailedCall(upstream[r1])) )
           => calls'[r2] = 1 ]_vars

\* a request was rejected by the upstream; a later request for the same
\* query text found no entry and called upstream
C9_Witness ==
  \E r1, r2 \in Requests :
    /\ r1 # r2
    /\ pc[r1] = "done" /\ upstream[r1].kind = "response"
    /\ upstream[r1].status = 400
    /\ query[r2] = query[r1]
    /\ ~met[r2].found /\ calls[r2] = 1

\* C10 (as claimed): a request answered from the cache is answered with an
\* entry that was stored for exactly its own query text.
C10_NoCrossQueryLeak ==
  \A r \in Requests :
    FromCache(r) => met[r].entry.q = query[r].str

\* the endpoint each query text of the routing family is sent to
Routed(text) ==
  IF text = <<97>> THEN WIKIBASE_SPARQL_ENDPOINT ELSE WIKIDATA_SPARQL_ENDPOINT

\* C11: the endpoint of a request that misses the cache depends on its query
\* text alone: whatever the cache holds, whatever requests came before and
\* whatever requests are in flight, each query text is sent to one and the
\* same endpoint, and two requests for one query text that both miss are
\* sent to the same endpoint.
C11_RoutingDeterminism ==
  /\ \A r \in Requests : calls[r] > 0 => url[r] = Routed(query[r].str)
  /\ \A r1, r2 \in Requests :
       (calls[r1] > 0 /\ calls[r2] > 0 /\ query[r1] = query[r2])
         => url[r1] = url[r2]

\* two requests for the Wikidata text both missed, the first on an empty
\* cache and the second on an entry it found under its key, and both went
\* to Wikidata
C11_Witness ==
  \E r1, r2 \in Requests :
    /\ r1 # r2
    /\ query[r1].str = LIT_P625 \o LIT_VALUES_WDITEM
    /\ query[r2] = query[r1]
    /\ calls[r1] = 1 /\ calls[r2] = 1
    /\ ~met[r1].found /\ met[r2].found
    /\ url[r1] = WIKIDATA_SPARQL_ENDPOINT
    /\ url[r2] = WIKIDATA_SPARQL_ENDPOINT

\* C12 (as claimed): whenever the get of a request finds an entry under its
\* key that is younger than 3600 s, whatever body the entry holds, the
\* request is answered 200 with that body, issues no outbound call, selects
\* no endpoint and classifies no failure.
C12_HitShortCircuit ==
  \A r \in Requests :
    (met[r].found /\ met[r].time < met[r].entry.at + 3600)
      => /\ pc[r] = "done"
         /\ resp[r].status = 200
         /\ resp[r].json = met[r].entry.v
         /\ calls[r] = 0
         /\ url[r] = ""
         /\ upstream[r] = UpstreamNone

\* C13: nothing joins a request to an outbound call in flight: a request that
\* arrives while another request for the same query text awaits its outbound
\* call, with no entry for that text in the cache, misses the cache and
\* issues an outbound call of its own, so that two calls for one query text
\* are in flight together.
C13_NoSingleFlight ==
  [][\A r1, r2 \in Requests :
       ( /\ r1 # r2
         /\ pc[r1] = "awaiting"
         /\ key[r1] \notin DOMAIN cache
         /\ pc[r2] = "new" /\ pc'[r2] # "new"
         /\ query'[r2] = query[r1] )
       => /\ ~met'[r2].found
          /\ pc'[r2] = "awaiting"
          /\ calls'[r2] = 1
          /\ pc'[r1] = "awaiting" /\ calls'[r1] = 1]_vars

\* two requests for one query text are in flight together: both missed an
\* empty cache and each issued its own outbound call
C13_Witness ==
  \E r1, r2 \in Requests :
    /\ r1 # r2
    /\ query[r1] = query[r2]
    /\ pc[r1] = "awaiting" /\ pc[r2] = "awaiting"
    /\ ~met[r1].found /\ ~met[r2].found
    /\ calls[r1] = 1 /\ calls[r2] = 1

\* the request left the handler: it was answered or its handler threw
Left(r) == pc[r] \in {"done", "crashed"}

\* C14 (as claimed): when the upstream answers the outbound call with a
\* status s outside 200..299, the request is answered with status s, and the
\* error field of the answer is the body the upstream sent.
C14_RejectionPassthrough ==
  \A r \in Requests :
    ( /\ Left(r)
      /\ route[r].handler = "sparql"
      /\ upstream[r].kind = "response"
      /\ upstream[r].status \notin 200..299 )
    => /\ resp[r].status = upstream[r].status
       /\ resp[r].error = upstream[r].data

\* C15: when the outbound request fails before it is sent (the error has
\* neither a response nor a request), the request is answered 500.
C15_SetupError ==
  \A r \in Requests :
    (Left(r) /\ route[r].handler = "sparql" /\ upstream[r].kind = "setup")
      => (pc[r] = "done" /\ resp[r].status = 500)

\* a request whose outbound call could not be set up was answered 500
C15_Witness ==
  \E r \in Requests :
    /\ pc[r] = "done"
    /\ route[r].handler = "sparql"
    /\ calls[r] = 1
    /\ upstream[r].kind = "setup"
    /\ resp[r].status = 500

\* C16 (as claimed): no exception escapes the handler and a request that
\* left the handler was answered: whatever the body of the request and
\* whatever the outcome of its outbound call, the handler never throws, and
\* once it is through, one response has been written.
C16_AlwaysAnswered ==
  \A r \in Requests :
    /\ pc[r] # "crashed"
    /\ pc[r] = "done" <=> resp[r].status # 0

\* the outbound call of the request was answered 2xx
Fetched(r) == upstream[r].kind = "response" /\ upstream[r].status \in 200..299

\* C17 (as claimed): a request is answered 200 if and only if it was served
\* from an entry of the cache or its own outbound call was answered 2xx, and
\* then the body is the whole stored or upstream body; every other request
\* is answered with an error status and a body without results.
C17_NoPartialResults ==
  \A r \in Requests :
    (pc[r] = "done" /\ route[r].handler = "sparql") =>
      /\ resp[r].status = 200 <=> (FromCache(r) \/ Fetched(r))
      /\ FromCache(r) => resp[r].json = met[r].entry.v
      /\ Fetched(r) => resp[r].json = upstream[r].data
      /\ resp[r].status # 200 =>
           (resp[r].status >= 400 /\ resp[r].json = JsUndefined)

\* the request was taken by the search route
Searched(r) == pc[r] # "new" /\ route[r].handler = "search"

\* the answer of the search route to a request with a query, by the outcome
\* of its one outbound call
SearchOutcome(r) ==
  /\ calls[r] = 1
  /\ url[r] = WIKIBASE_API_URL
  /\ sent[r] = query[r]
  /\ pc[r] = "done" =>
       /\ Fetched(r) =>
            (resp[r].status = 200 /\ resp[r].json = upstream[r].data)
       /\ upstream[r].kind = "request" => resp[r].status = 503
       /\ (upstream[r].kind = "response" /\ ~Fetched(r)) =>
            resp[r].status = upstream[r].status
       /\ upstream[r].kind = "setup" => resp[r].status = 500

\* C18 (as claimed): a request to GET /api/search without the query
\* parameter is answered 400 and issues no outbound call; every other
\* request issues exactly one call with the query as it came and is
\* answered 200 with the upstream body, 503, the upstream status or 500.
C18_SearchMapping ==
  \A r \in Requests :
    Searched(r) =>
      IF query[r].type = "undefined"
        THEN resp[r].status = 400 /\ calls[r] = 0
        ELSE SearchOutcome(r)

\* C18 (amended): a request to GET /api/search without the query parameter,
\* or with an empty one, is answered 400 and issues no outbound call; every
\* other request issues exactly one call with the query as it came and is
\* answered 200 with the upstream body, 503, the upstream status or 500.
C18_SearchMappingNonEmpty ==
  \A r \in Requests :
    Searched(r) =>
      IF NoQuery(r)
        THEN pc[r] = "done" /\ resp[r].status = 400 /\ calls[r] = 0
        ELSE SearchOutcome(r)

\* a search with an empty query was answered 400 without a call, and a
\* search for 'a' whose call the upstream answered 502 was answered 502
C18_Witness ==
  \E r1, r2 \in Requests :
    /\ Searched(r1) /\ query[r1] = JsString(<<>>)
    /\ resp[r1].status = 400 /\ calls[r1] = 0
    /\ Searched(r2) /\ query[r2] = JsString(<<97>>)
    /\ pc[r2] = "done" /\ calls[r2] = 1
    /\ upstream[r2].kind = "response" /\ upstream[r2].status = 502
    /\ resp[r2].status = 502

\* C19: a request to GET /api/searchProperties/:entityId issues exactly one
\* outbound call; it is answered 200 with the upstream body when the call is
\* answered 2xx and 500 on every failure (any upstream status outside 2xx,
\* no response, setup error): the upstream status is never passed on.
C19_PropertiesMapping ==
  \A r \in Requests :
    (pc[r] # "new" /\ route[r].handler = "searchProperties") =>
      /\ calls[r] = 1
      /\ url[r] = WIKIBASE_SPARQL_URL
      /\ pc[r] = "done" =>
           /\ Fetched(r) =>
                (resp[r].status = 200 /\ resp[r].json = upstream[r].data)
           /\ FailedCall(upstream[r]) =>
                (resp[r].status = 500 /\ resp[r].error = JsUndefined)

\* a properties request whose call the upstream answered 404 was answered
\* 500
C19_Witness ==
  \E r \in Requests :
    /\ route[r].handler = "searchProperties"
    /\ pc[r] = "done" /\ calls[r] = 1
    /\ upstream[r].kind = "response" /\ upstream[r].status = 404
    /\ resp[r].status = 500

\* C20 (as claimed): the server entry point hands a POST to /api/sparql to
\* the handler of the sparql route, and a GET to /api/search to the handler
\* of the search route.
C20_SparqlMounted ==
  \A r \in Requests :
    /\ (route[r].method = "POST" /\ route[r].path = "/api/sparql")
         => (route[r].handler = "sparql" /\ resp[r].status # 404)
    /\ (route[r].method = "GET" /\ route[r].path = "/api/search")
         => route[r].handler = "search"

\* the step completes the outbound call of request r with a 2xx answer
Completes(r) ==
  /\ pc[r] = "awaiting" /\ pc'[r] # "awaiting"
  /\ upstream'[r].kind = "response" /\ upstream'[r].status \in 200..299

\* C21: the step that completes a 2xx fetch for key K leaves under K an entry
\* that holds the body of that fetch and expires 3600 s after that moment,
\* whatever entry K had before and however long ago the request arrived;
\* no other step puts an entry into the cache or changes one.  So a live
\* entry always holds the body of the latest completed 2xx fetch for its
\* key, with the TTL counted from that fetch.
C21_CachePopulation ==
  [][ /\ \A r \in Requests :
           Completes(r) =>
             /\ key[r] \in DOMAIN cache'
             /\ cache'[key[r]].v = upstream'[r].data
             /\ cache'[key[r]].t = now + 3600
      /\ \A k \in DOMAIN cache' :
           (\A r \in Requests : ~(Completes(r) /\ key[r] = k))
             => (k \in DOMAIN cache /\ cache'[k] = cache[k]) ]_vars

\* two requests for one key fetched different bodies; the entry holds the
\* body of one of them and was stored after the other one's, later than the
\* start of the run
C21_Witness ==
  \E r1, r2 \in Requests :
    /\ r1 # r2 /\ key[r1] = key[r2]
    /\ pc[r1] = "done" /\ Fetched(r1)
    /\ pc[r2] = "done" /\ Fetched(r2)
    /\ ~met[r1].found /\ ~met[r2].found
    /\ upstream[r1].data # upstream[r2].data
    /\ key[r2] \in DOMAIN cache
    /\ cache[key[r2]].v = upstream[r2].data
    /\ cache[key[r2]].at > 0
    /\ cache[key[r2]].t = cache[key[r2]].at + 3600

\* C22 (as claimed): an entry younger than 3600 s stays in the cache as it
\* is through every step (arrivals for other keys, sweeps, failures, the
\* passage of time) unless a 2xx fetch for its key overwrites it, and every
\* lookup of its key in that time is a hit answered with its body.
C22_NoEviction ==
  [][\A k \in DOMAIN cache :
       now' < cache[k].at + 3600 =>
         /\ k \in DOMAIN cache'
         /\ \/ cache'[k] = cache[k]
            \/ \E r \in Requests : Completes(r) /\ key[r] = k
         /\ \A r \in Requests :
              (pc[r] = "new" /\ pc'[r] # "new" /\ key'[r] = k)
                => /\ calls'[r] = 0
                   /\ resp'[r].status = 200
                   /\ resp'[r].json = cache[k].v]_vars

\* C23: on every miss the query parameter of the outbound call is the query
\* text of the request, code unit for code unit, and the call carries
\* format=json and goes to one of the two endpoints; a request that issues
\* no call sends nothing.
C23_Verbatim ==
  \A r \in Requests :
    route[r].handler = "sparql" =>
      /\ calls[r] > 0 =>
           /\ sent[r].type = "string"
           /\ Len(sent[r].str) = Len(query[r].str)
           /\ \A i \in 1..Len(query[r].str) : sent[r].str[i] = query[r].str[i]
           /\ format[r] = "json"
           /\ url[r] \in {WIKIBASE_SPARQL_ENDPOINT, WIKIDATA_SPARQL_ENDPOINT}
      /\ calls[r] = 0 => (sent[r] = JsUndefined /\ format[r] = "")

\* a query text that ends in a space was sent with its space
C23_Witness ==
  \E r \in Requests :
    /\ route[r].handler = "sparql"
    /\ calls[r] = 1
    /\ Len(query[r].str) > 1
    /\ query[r].str[Len(query[r].str)] = 32
    /\ sent[r].str = query[r].str
    /\ format[r] = "json"

\* the upstream rejected the call of the request with a syntax-class error:
\* a status outside 2xx and an error body whose message holds 'syntax'
SyntaxClass(r) ==
  /\ upstream[r].kind = "response"
  /\ upstream[r].status \notin 200..299
  /\ upstream[r].data.type = "object"
  /\ upstream[r].data.hasMessage
  /\ upstream[r].data.messageType = "string"
  /\ Occurs(LIT_SYNTAX, upstream[r].data.message)

C25_HitsDoNotExtend ==
  [][ /\ \A r \in Requests :
           (pc[r] = "new" /\ pc'[r] = "done" /\ gets'[r] = 1 /\ calls'[r] = 0)
             => cache' = cache
      /\ \A k \in DOMAIN cache' : cache'[k].t = cache'[k].at + 3600 ]_vars

\* two requests were answered from one entry, the second at a later time
\* than the first, and the entry still has the expiry time of its store
C25_Witness ==
  \E r1, r2 \in Requests :
    /\ r1 # r2
    /\ FromCache(r1) /\ FromCache(r2)
    /\ met[r1].entry = met[r2].entry
    /\ met[r1].time < met[r2].time
    /\ key[r2] \in DOMAIN cache
    /\ cache[key[r2]] = met[r1].entry
    /\ cache[key[r2]].t = met[r1].entry.at + 3600


(***************************************************************************)
(* The search components.                                                  *)
(***************************************************************************)
\* invocation i of executeSearch is suspended in an await
InFlight(i) == run[i].pc \in {"initial", "entity", "residence", "get"}

\* the entity coordinates lookup of invocation i fails in this step
EntityLookupFails(i) == run[i].entity = "none" /\ run'[i].entity = "failed"

\* the residence coordinates lookup of invocation i fails in this step
ResidenceLookupFails(i) ==
  run[i].residence = "none" /\ run'[i].residence = "failed"

\* C26: the coordinate lookups of GeoSearch are best-effort.  A step in
\* which the entity lookup or the residence lookup of a search fails leaves
\* the error message and the results as they were, and the results are
\* those of the initial query of that search; after a failed entity lookup
\* the residence query is posted whenever the initial results name a
\* residence item, and otherwise the search ends; after a failed residence
\* lookup the search ends with loading false; a lookup that failed has
\* added no coordinates.
C26_BestEffortCoordinates ==
  [][\A i \in Searches :
       /\ EntityLookupFails(i) \/ ResidenceLookupFails(i)
            => /\ error' = error
               /\ results' = results
               /\ ~results'.isNull
               /\ results'.term = run[i].term
       /\ EntityLookupFails(i)
            => /\ results'.coord_raw = {}
               /\ IF run[i].residenceWdItems # {}
                    THEN /\ run'[i].pc = "residence"
                         /\ \E p \in run'[i].posted : p.kind = "residence"
                    ELSE run'[i].pc = "done" /\ ~loading'
       /\ ResidenceLookupFails(i)
            => /\ results'.resCoord_raw = {}
               /\ run'[i].pc = "done"
               /\ ~loading']_vars

\* both lookups of a search failed, and its results are shown with no error
C26_Witness ==
  \E i \in Searches :
     /\ run[i].pc = "done"
     /\ run[i].entity = "failed"
     /\ run[i].residence = "failed"
     /\ ~results.isNull
     /\ results.term = run[i].term
     /\ results.n > 0
     /\ error = NoError
     /\ ~hasCoordinates


\* a search is started in this step
StartsSearch == \E i \in Searches : run[i].pc = "idle" /\ run'[i].pc # "idle"

\* C27: pagination of the search components.  In every state
\* 1 <= currentPage <= max(1, totalPages), totalPages is the ceiling of
\* resultsCount / 10 and the page shown holds at most 10 items; every step
\* that starts a search sets currentPage to 1; no step raises currentPage
\* at the last page and any other step raises it by one; apart from the
\* start of a search no step lowers currentPage at page 1 and any other
\* step lowers it by one.
C27_Pagination ==
  /\ [](/\ 1 <= currentPage
        /\ currentPage <= Max(1, totalPages)
        /\ totalPages * 10 >= resultsCount
        /\ (totalPages - 1) * 10 < resultsCount
        /\ paginatedResults <= 10)
  /\ [][/\ StartsSearch => currentPage' = 1
        /\ currentPage' > currentPage
             => currentPage < totalPages /\ currentPage' = currentPage + 1
        /\ (currentPage' < currentPage /\ ~StartsSearch)
             => currentPage > 1 /\ currentPage' = currentPage - 1]_vars

\* the last of three pages is shown, with the five items left for it
C27_Witness ==
  /\ totalPages = 3
  /\ currentPage = 3
  /\ paginatedResults = 5
  /\ ~loading


\* executeSearch turned a search down in this step
RejectsSearch == error' = MSG_ENTER_TERM /\ error # MSG_ENTER_TERM

\* C28: an empty search term is rejected in the component.  No search
\* starts while the trimmed search field is empty; the step that sets the
\* error message "Please enter a search term" happens only for such a field
\* and leaves results, lastSearchQuery, currentPage, loading and the
\* requests posted as they were; every search that started has a non-empty
\* term and posted its request; and loading is true exactly while a search
\* has started and not yet settled, however it settles.
C28_EmptyTermRejected ==
  /\ [](/\ \A i \in Searches :
             run[i].pc # "idle" => run[i].term # <<>> /\ run[i].posted # {}
        /\ loading <=> \E i \in Searches : InFlight(i))
  /\ [][/\ trim(searchQuery) = <<>> => ~StartsSearch
        /\ RejectsSearch
             => /\ trim(searchQuery) = <<>>
                /\ UNCHANGED <<results, lastSearchQuery, currentPage, loading,
                               run>>
        /\ StartsSearch => loading']_vars

\* a blank term was turned down after a search that succeeded: its results
\* are still shown
C28_Witness ==
  /\ error = MSG_ENTER_TERM
  /\ trim(searchQuery) = <<>>
  /\ searchQuery # <<>>
  /\ ~loading
  /\ run[1].pc = "done"
  /\ ~results.isNull
  /\ lastSearchQuery = run[1].term


\* C29: the queries of GeoSearch reach the endpoint meant for them.  For
\* every search, the proxy selects the Wikibase endpoint for the initial
\* query and the Wikidata endpoint for the entity coordinates query and the
\* residence coordinates query.
C29_IntendedEndpoints ==
  \A i \in Searches : \A p \in run[i].posted :
     /\ p.kind = "initial" => p.url = WIKIBASE_SPARQL_ENDPOINT
     /\ p.kind \in {"entity", "residence"} => p.url = WIKIDATA_SPARQL_ENDPOINT


=============================================================================
